---- MODULE Spec2Model ----
(***************************************************************************)
(* Model of echopype/convert/utils: EvParserBase (ev_parser.py),           *)
(* CalibrationParser (ecs_parser.py) and Region2DParser (evr_parser.py).   *)
(*                                                                         *)
(* Text is modelled by its space-separated tokens: a string is the         *)
(* sequence of the tokens between its single spaces, so '' is <<"">> and   *)
(* 'a  b' is <<"a", "", "b">>.  What file.readline() returns is that       *)
(* sequence for a line of the file (its newline is left implicit) and the  *)
(* empty sequence at end of input, where Python returns '' with no         *)
(* newline.  A path is <<directory, stem, extension>>.  A Python dict is   *)
(* the sequence of its <<key, value>> pairs in insertion order.            *)
(***************************************************************************)
EXTENDS Integers, Sequences, FiniteSets, TLC

VARIABLES
    disk,            \* the input files on disk: path -> sequence of lines
    input_files,     \* self._input_files
    output_data,     \* self.output_data: dict stem -> record
    output_path,     \* self._output_path
    written,         \* the output files written so far: path -> content
    source_of,       \* history: stem -> the input path its record was parsed from
    ret,             \* outcome of the last API call that returned or raised
    ncalls,          \* number of API calls made so far
    pc,              \* where the parser is inside a call
    call,            \* the API call being executed
    fidx,            \* index of `file` in the for loop of parse_files
    pos,             \* cursor of fid: index of the next line readline() returns
    line,            \* local `line` of advance_to_section / _parse_settings
    stage,           \* which section parse_files is working on
    settings,        \* local `settings` of _parse_settings
    cal,             \* key of the SourceCal block being parsed
    rec              \* what has been parsed of the file being parsed

vars == <<disk, input_files, output_data, output_path, written, source_of, ret,
          ncalls, pc, call, fidx, pos, line, stage, settings, cal, rec>>

session == <<input_files, output_data, output_path, written, source_of>>
frame   == <<fidx, pos, line, stage, settings, cal, rec>>

(***************************************************************************)
(* Bounds                                                                  *)
(***************************************************************************)
MaxCalls == 3        \* API calls on a Region2DParser per behaviour
MaxEcsCalls == 2     \* API calls on a CalibrationParser per behaviour
MaxFiles == 2        \* length of a list assigned to input_files

(***************************************************************************)
(* Python values                                                           *)
(***************************************************************************)
None == "<None>"                    \* save_dir=None
NaN  == "<nan>"                     \* np.nan
EOF  == <<>>                        \* readline() at end of input

Max(a, b) == IF a > b THEN a ELSE b

\* Sequences of distinct elements of S, of length 0..n
RECURSIVE SeqsUpTo(_, _)
SeqsUpTo(S, n) ==
    IF n = 0 THEN {<<>>}
    ELSE LET shorter == SeqsUpTo(S, n - 1)
             longest == {t \in shorter : Len(t) = n - 1}
         IN  shorter \cup {Append(e[1], e[2]) :
                              e \in {d \in longest \X S : \A i \in 1..(n - 1) : d[1][i] # d[2]}}

\* dict operations (insertion ordered)
DictKeys(d) == [i \in 1..Len(d) |-> d[i][1]]
KeySet(d) == {d[i][1] : i \in 1..Len(d)}
HasKey(d, k) == \E i \in 1..Len(d) : d[i][1] = k
DictGet(d, k) == d[CHOOSE i \in 1..Len(d) : d[i][1] = k][2]
DictSet(d, k, v) ==
    IF HasKey(d, k)
    THEN [i \in 1..Len(d) |-> IF d[i][1] = k THEN <<k, v>> ELSE d[i]]
    ELSE Append(d, <<k, v>>)

RECURSIVE DictUpdate(_, _)
DictUpdate(d, e) ==
    IF e = <<>> THEN d ELSE DictUpdate(DictSet(d, Head(e)[1], Head(e)[2]), Tail(e))

RECURSIVE DictFromKeys(_, _)
DictFromKeys(keys, v) ==
    IF keys = <<>> THEN <<>>
    ELSE LET front == DictFromKeys(SubSeq(keys, 1, Len(keys) - 1), v)
             k == keys[Len(keys)]
         IN  IF HasKey(front, k) THEN front ELSE Append(front, <<k, v>>)

\* the file system's view of a function path -> content
FsWrite(fs, p, c) == [q \in (DOMAIN fs) \cup {p} |-> IF q = p THEN c ELSE fs[q]]

(***************************************************************************)
(* Files and paths                                                         *)
(***************************************************************************)
Dirs == {"d1", "d2", "out"}                     \* the directories that exist
isdir(d) == d \in Dirs
isfile(p) == p \in DOMAIN disk
dirname(p) == p[1]
basename(p) == <<p[2], p[3]>>
splitext(b) == <<b[1], b[2]>>
join(d, f, ext) == <<d, f, ext>>                \* os.path.join(d, f) + '.' + ext

\* fid.readline() with the cursor at pos, and the cursor after it
readline(lines, p) == IF p <= Len(lines) THEN lines[p] ELSE EOF
advance(lines, p) == IF p <= Len(lines) THEN p + 1 ELSE p

\* str.strip() then str.split(' ')
RECURSIVE lstrip(_)
lstrip(t) == IF t # <<>> /\ Head(t) = "" THEN lstrip(Tail(t)) ELSE t
RECURSIVE rstrip(_)
rstrip(t) == IF t # <<>> /\ t[Len(t)] = "" THEN rstrip(SubSeq(t, 1, Len(t) - 1)) ELSE t
strip_split(raw) == LET s == rstrip(lstrip(raw)) IN IF s = <<>> THEN <<"">> ELSE s

\* EvParserBase.read_line(fid, split=True)
read_line_split(lines, p) == strip_split(readline(lines, p))

\* `section in line`
Contains(raw, section) ==
    \E i \in 1..(Len(raw) - Len(section) + 1) :
        SubSeq(raw, i, i + Len(section) - 1) = section

\* '_'.join(cal_name)
join_underscore(t) ==
    CASE t = <<"SourceCal", "T1">> -> "SourceCal_T1"
      [] t = <<"SourceCal", "T2">> -> "SourceCal_T2"
      [] t = <<"SourceCal">> -> "SourceCal"
      [] OTHER -> "SourceCal_?"

(***************************************************************************)
(* Calibration (.ecs) files                                                *)
(***************************************************************************)
BoxLine == <<"#====#">>
Blank == <<"">>
Heading(name) == <<"#", "", name, "SETTINGS", "", "#">>
Section(s) ==
    CASE s = "fileset" -> <<"FILESET", "SETTINGS">>
      [] s = "sourcecal" -> <<"SOURCECAL", "SETTINGS">>
      [] s = "localcal" -> <<"LOCALCAL", "SETTINGS">>

SectionHead(name) == <<BoxLine, Heading(name), BoxLine, Blank>>

RECURSIVE CalBlocks(_)
CalBlocks(cals) ==
    IF cals = <<>> THEN <<>>
    ELSE <<Head(cals)[1]>> \o Head(cals)[2] \o <<Blank>> \o CalBlocks(Tail(cals))

EcsFile(fs, cals, ls) ==
    SectionHead("FILESET") \o fs \o <<Blank>>
    \o SectionHead("SOURCECAL") \o CalBlocks(cals)
    \o SectionHead("LOCALCAL") \o ls \o <<Blank>>

FileA == EcsFile(<<<<"", "", "f", "=", "1">>>>,
                 <<<<<<"SourceCal", "T1">>, <<<<"", "a", "=", "1", "#", "dB">>>>>>,
                   <<<<"SourceCal", "T2">>, <<<<"", "b", "=", "2">>>>>>>>,
                 <<<<"#", "g", "=", "#">>>>)
FileB == EcsFile(<<<<"f", "=", "2">>>>,
                 <<<<<<"SourceCal", "T1">>, <<<<"a", "=", "3">>>>>>>>,
                 <<<<"g", "=", "5">>>>)
FileC == EcsFile(<<<<"f", "=", "3">>, <<"#", "h", "=", "#">>>>,
                 <<<<<<"SourceCal", "T2", "">>, <<<<"a", "=", "4">>, <<"a", "=", "5">>>>>>>>,
                 <<<<"g", "=", "6">>>>)
\* no SourceCal block at all
FileNoCal == EcsFile(<<<<"f", "=", "4">>>>, <<>>, <<<<"g", "=", "7">>>>)
\* a settings line with no value token
FileBad == EcsFile(<<<<"f", "=">>>>, <<>>, <<>>)

Prefixes(f) == {SubSeq(f, 1, k) : k \in 0..Len(f)}

X1 == <<"d1", "x", "ecs">>
Y2 == <<"d2", "y", "ecs">>
Missing == <<"d1", "missing", "ecs">>
EcsPaths == {X1, Y2}
EcsDisks ==
    {[p \in EcsPaths |-> IF p = X1 THEN FileA ELSE c] :
        c \in Prefixes(FileC) \cup {FileB, FileNoCal, FileBad}}

SaveDirs == {None, "out", "nodir"}
NoCall == [op |-> "none", save_dir |-> None, parsed |-> FALSE]
NoRet == [op |-> "none", save_dir |-> None, parsed |-> FALSE, exc |-> "none", wrote |-> {}]
NoRec == [fileset_settings |-> <<>>, sourcecal_settings |-> <<>>]

Returned(c, e, w) ==
    [op |-> c.op, save_dir |-> c.save_dir, parsed |-> c.parsed, exc |-> e, wrote |-> w]

(***************************************************************************)
(* EvParserBase: the input_files setter, _validate_path, to_json           *)
(***************************************************************************)
\* the lists a caller assigns to input_files
FileLists == SeqsUpTo(DOMAIN disk, MaxFiles) \cup {<<Missing>>}

\* _validate_path(self, save_dir), with self.input_files = files
validate_path(save_dir, files) ==
    IF save_dir = None
    THEN IF files = <<>>
         THEN [exc |-> "IndexError", dir |-> None]            \* self.input_files[0]
         ELSE [exc |-> "none", dir |-> dirname(files[1])]
    ELSE IF ~isdir(save_dir)
         THEN [exc |-> "ValueError", dir |-> None]
         ELSE [exc |-> "none", dir |-> save_dir]

\* what to_json / to_csv pass to _validate_path: they call self._validate_path()
PassedSaveDir(save_dir) == None

\* the loop of to_json over output_data.items(), from item i on
RECURSIVE JsonLoop(_, _, _)
JsonLoop(dir, i, st) ==
    IF i > Len(st.od) THEN st
    ELSE LET file == st.od[i][1]
             item == st.od[i][2]
             output_file_path == join(dir, file, "json")
         IN  JsonLoop(dir, i + 1,
                 [st EXCEPT !.fs = FsWrite(@, output_file_path, [kind |-> "json", item |-> item]),
                            !.out = Append(@, output_file_path),
                            !.wrote = @ \cup {output_file_path}])

ExportState(od, out, fs) == [od |-> od, out |-> out, fs |-> fs, wrote |-> {}, exc |-> "none"]

\* to_json after its parse-if-empty test
to_json_body(save_dir, files, od, out, fs) ==
    LET vp == validate_path(PassedSaveDir(save_dir), files)
    IN  IF vp.exc # "none"
        THEN [ExportState(od, out, fs) EXCEPT !.exc = vp.exc]
        ELSE JsonLoop(vp.dir, 1, ExportState(od, out, fs))

(***************************************************************************)
(* CalibrationParser.to_csv                                                *)
(***************************************************************************)
get_row_from_source(row_dict, source_dict, value_source, channel) ==
    LET updated == DictUpdate(source_dict,
                       <<<<"value_source", value_source>>, <<"channel", channel>>>>)
    IN  [source |-> updated, row |-> DictUpdate(row_dict, updated)]

\* the loop over sourcecal_settings.items(), from entry i on
RECURSIVE CalRows(_, _, _, _)
CalRows(item, row_dict, i, rows) ==
    IF i > Len(item.sourcecal_settings) THEN [item |-> item, rows |-> rows]
    ELSE LET c == item.sourcecal_settings[i][1]
             row_fileset == get_row_from_source(row_dict, item.fileset_settings, "FILESET", c)
             row_sourcecal == get_row_from_source(row_dict, item.sourcecal_settings[i][2],
                                                  "SOURCECAL", c)
             row_localset == get_row_from_source(row_dict, item.localcal_settings, "LOCALSET", c)
             after == [fileset_settings |-> row_fileset.source,
                       sourcecal_settings |->
                           [item.sourcecal_settings EXCEPT ![i] = <<c, row_sourcecal.source>>],
                       localcal_settings |-> row_localset.source]
         IN  CalRows(after, row_dict, i + 1,
                     rows \o <<row_fileset.row, row_sourcecal.row, row_localset.row>>)

\* body of the loop over output_data.items() for one file
ecs_rows(item) ==
    IF item.sourcecal_settings = <<>>
    THEN [exc |-> "IndexError", item |-> item, rows |-> <<>>]       \* list(...values())[0]
    ELSE LET id_keys == <<"value_source", "channel">>
             fileset_keys == DictKeys(item.fileset_settings)
             sourcecal_keys == DictKeys(item.sourcecal_settings[1][2])
             localset_keys == DictKeys(item.localcal_settings)
             row_dict == DictFromKeys(id_keys \o fileset_keys \o sourcecal_keys \o localset_keys,
                                      NaN)
             r == CalRows(item, row_dict, 1, <<>>)
         IN  [exc |-> "none", item |-> r.item, rows |-> r.rows]

RECURSIVE EcsCsvLoop(_, _, _)
EcsCsvLoop(dir, i, st) ==
    IF i > Len(st.od) THEN st
    ELSE LET file == st.od[i][1]
             r == ecs_rows(st.od[i][2])
             output_file_path == join(dir, file, "csv")
         IN  IF r.exc # "none" THEN [st EXCEPT !.exc = r.exc]
             ELSE EcsCsvLoop(dir, i + 1,
                     [st EXCEPT !.od[i] = <<file, r.item>>,
                                !.fs = FsWrite(@, output_file_path,
                                               [kind |-> "csv", rows |-> r.rows]),
                                !.out = Append(@, output_file_path),
                                !.wrote = @ \cup {output_file_path}])

ecs_to_csv_body(save_dir, files, od, out, fs) ==
    LET vp == validate_path(PassedSaveDir(save_dir), files)
    IN  IF vp.exc # "none"
        THEN [ExportState(od, out, fs) EXCEPT !.exc = vp.exc]
        ELSE EcsCsvLoop(vp.dir, 1, ExportState(od, out, fs))

(***************************************************************************)
(* API of CalibrationParser.  parse_files is modelled statement by         *)
(* statement (pc), because advance_to_section is a loop on the file.       *)
(***************************************************************************)
EcsIdle == pc = "idle" /\ ncalls < MaxEcsCalls

\* input_files.setter with a list
SetInputFiles(files) ==
    /\ ncalls' = ncalls + 1
    /\ IF \A i \in 1..Len(files) : isfile(files[i])
       THEN /\ input_files' = files
            /\ ret' = Returned([op |-> "set_input_files", save_dir |-> None, parsed |-> FALSE],
                               "none", {})
       ELSE /\ input_files' = input_files
            /\ ret' = Returned([op |-> "set_input_files", save_dir |-> None, parsed |-> FALSE],
                               "ValueError", {})
    /\ UNCHANGED <<disk, output_data, output_path, written, source_of, pc, call>>
    /\ UNCHANGED frame

\* parse_files up to the for loop: self._output_path = []
BeginParse(c) ==
    /\ output_path' = <<>>
    /\ call' = c
    /\ pc' = "for"
    /\ fidx' = 1
    /\ pos' = 1
    /\ line' = Blank
    /\ stage' = "fileset"
    /\ settings' = <<>>
    /\ cal' = ""
    /\ rec' = NoRec

\* CalibrationParser.parse_files(input_files=None)
EcsParseFiles ==
    /\ EcsIdle
    /\ ncalls' = ncalls + 1
    /\ BeginParse([op |-> "parse_files", save_dir |-> None, parsed |-> TRUE])
    /\ UNCHANGED <<disk, input_files, output_data, written, source_of, ret>>

\* an exception that is caught and dropped
Raise_swallow(e) ==
    /\ pc' = "idle"
    /\ ret' = Returned(call, "none", {})
    /\ call' = NoCall

\* an exception leaves the call
Raise(e) ==
    /\ pc' = "idle"
    /\ ret' = Returned(call, e, {})
    /\ call' = NoCall

\* `for file in self.input_files:` and the two lines that open the file
EcsFor ==
    /\ pc = "for"
    /\ IF fidx > Len(input_files)
       THEN /\ IF call.op = "parse_files"
               THEN /\ pc' = "idle"
                    /\ ret' = Returned(call, "none", {})
                    /\ call' = NoCall
               ELSE /\ pc' = "export"
                    /\ UNCHANGED <<ret, call>>
            /\ UNCHANGED frame
       ELSE /\ pc' = "advance"
            /\ pos' = 1
            /\ stage' = "fileset"
            /\ rec' = NoRec
            /\ UNCHANGED <<ret, call, fidx, line, settings, cal>>
    /\ UNCHANGED <<disk, ncalls>>
    /\ UNCHANGED session

\* one iteration of the while loop of advance_to_section; when the section
\* is found, the two readline() calls that follow the loop
EcsAdvance ==
    /\ pc = "advance"
    /\ LET f == disk[input_files[fidx]]
       IN  /\ line' = readline(f, pos)
           /\ IF Contains(line', Section(stage))
              THEN /\ pos' = advance(f, advance(f, advance(f, pos)))
                   /\ pc' = IF stage = "sourcecal" THEN "sourcecal" ELSE "settings"
                   /\ settings' = <<>>
              ELSE /\ pos' = advance(f, pos)
                   /\ pc' = "advance"
                   /\ UNCHANGED settings
    /\ UNCHANGED <<disk, ncalls, ret, call, fidx, stage, cal, rec>>
    /\ UNCHANGED session

\* what _parse_settings stores for a line of fields
FieldOf(l) == LET idx == IF l[1] # "#" THEN 0 ELSE 1 IN l[idx + 1]
ValueOf(l) == LET idx == IF l[1] # "#" THEN 0 ELSE 1
                  val == l[idx + 3]
              IN  IF val = "#" THEN NaN ELSE val
HasValue(l) == LET idx == IF l[1] # "#" THEN 0 ELSE 1 IN Len(l) >= idx + 3

\* where parse_files goes on when _parse_settings returns
SettingsReturn ==
    CASE stage = "fileset" ->
            /\ rec' = [rec EXCEPT !.fileset_settings = settings]
            /\ stage' = "sourcecal"
            /\ pc' = "advance"
            /\ UNCHANGED <<fidx, output_data, source_of>>
      [] stage = "sourcecal" ->
            /\ rec' = [rec EXCEPT !.sourcecal_settings = DictSet(@, cal, settings)]
            /\ pc' = "sourcecal"
            /\ UNCHANGED <<fidx, stage, output_data, source_of>>
      [] stage = "localcal" ->
            LET file == input_files[fidx]
                fname == splitext(basename(file))[1]
            IN  /\ output_data' = DictSet(output_data, fname,
                       [fileset_settings |-> rec.fileset_settings,
                        sourcecal_settings |-> rec.sourcecal_settings,
                        localcal_settings |-> settings])
                /\ source_of' = DictSet(source_of, fname, file)
                /\ fidx' = fidx + 1
                /\ pc' = "for"
                /\ UNCHANGED <<stage, rec>>

\* a _parse_settings that leaves the blank line for its caller
ReadSettingsLine_peek ==
    LET f == disk[input_files[fidx]]
    IN  /\ line' = read_line_split(f, pos)
        /\ pos' = IF Len(line') = 1 THEN pos ELSE advance(f, pos)

\* line = self.read_line(fid, split=True)
ReadSettingsLine ==
    LET f == disk[input_files[fidx]]
    IN  /\ line' = read_line_split(f, pos)
        /\ pos' = advance(f, pos)

\* one iteration of the while loop of _parse_settings
EcsSettings ==
    /\ pc = "settings"
    /\ ReadSettingsLine
    /\ IF Len(line') = 1
       THEN /\ SettingsReturn
            /\ UNCHANGED <<settings, ret, call>>
       ELSE IF ~HasValue(line')
            THEN /\ Raise("IndexError")
                 /\ UNCHANGED <<settings, fidx, stage, rec, output_data, source_of>>
            ELSE /\ settings' = DictSet(settings, FieldOf(line'), ValueOf(line'))
                 /\ UNCHANGED <<pc, ret, call, fidx, stage, rec, output_data, source_of>>
    /\ UNCHANGED <<disk, ncalls, cal, input_files, output_path, written>>

\* one iteration of the while loop of _parse_sourcecal
EcsSourcecal ==
    /\ pc = "sourcecal"
    /\ LET f == disk[input_files[fidx]]
           cal_name == read_line_split(f, pos)
       IN  /\ pos' = advance(f, pos)
           /\ IF cal_name[1] = "SourceCal"
              THEN /\ cal' = join_underscore(cal_name)
                   /\ settings' = <<>>
                   /\ pc' = "settings"
                   /\ UNCHANGED stage
              ELSE /\ stage' = "localcal"
                   /\ pc' = "advance"
                   /\ UNCHANGED <<cal, settings>>
    /\ UNCHANGED <<disk, ncalls, ret, call, fidx, line, rec>>
    /\ UNCHANGED session

\* the rest of to_json / to_csv after `if not self.output_data: self.parse_files()`
EcsFinish(c, out) ==
    LET st == IF c.op = "to_json"
              THEN to_json_body(c.save_dir, input_files, output_data, out, written)
              ELSE ecs_to_csv_body(c.save_dir, input_files, output_data, out, written)
    IN  /\ output_data' = st.od
        /\ output_path' = st.out
        /\ written' = st.fs
        /\ ret' = Returned(c, st.exc, st.wrote)
        /\ pc' = "idle"
        /\ call' = NoCall

EcsExport ==
    /\ pc = "export"
    /\ EcsFinish(call, output_path)
    /\ UNCHANGED <<disk, ncalls, input_files, source_of>>
    /\ UNCHANGED frame

\* to_json(save_dir) / to_csv(save_dir) of CalibrationParser
EcsExportCall(op, save_dir) ==
    /\ EcsIdle
    /\ ncalls' = ncalls + 1
    /\ IF output_data = <<>>
       THEN /\ BeginParse([op |-> op, save_dir |-> save_dir, parsed |-> TRUE])
            /\ UNCHANGED <<output_data, written, ret>>
       ELSE /\ EcsFinish([op |-> op, save_dir |-> save_dir, parsed |-> FALSE], output_path)
            /\ UNCHANGED frame
    /\ UNCHANGED <<disk, input_files, source_of>>

EcsToJson == \E save_dir \in SaveDirs : EcsExportCall("to_json", save_dir)
EcsToCsv == \E save_dir \in SaveDirs : EcsExportCall("to_csv", save_dir)
EcsSetInputFiles == EcsIdle /\ \E files \in FileLists : SetInputFiles(files)

InitEcs ==
    /\ disk \in EcsDisks
    /\ input_files \in {fl \in FileLists : \A i \in 1..Len(fl) : isfile(fl[i])}
    /\ output_data = <<>>
    /\ output_path = <<>>
    /\ written = <<>>
    /\ source_of = <<>>
    /\ ret = NoRet
    /\ ncalls = 0
    /\ pc = "idle"
    /\ call = NoCall
    /\ fidx = 1
    /\ pos = 1
    /\ line = Blank
    /\ stage = "fileset"
    /\ settings = <<>>
    /\ cal = ""
    /\ rec = NoRec

NextEcs ==
    \/ EcsSetInputFiles
    \/ EcsParseFiles
    \/ EcsToJson
    \/ EcsToCsv
    \/ EcsFor
    \/ EcsAdvance
    \/ EcsSettings
    \/ EcsSourcecal
    \/ EcsExport

SpecEcs == InitEcs /\ [][NextEcs]_vars

(***************************************************************************)
(* Properties of CalibrationParser                                         *)
(***************************************************************************)
Exports == {"to_json", "to_csv"}

\* the step in which to_json / to_csv runs its body and returns or raises
ExportReturns ==
    /\ pc = "export" \/ (pc = "idle" /\ ncalls' = ncalls + 1)
    /\ pc' = "idle"
    /\ ret'.op \in Exports

\* C1: once readline() has returned end of input inside advance_to_section
\* (the section marker never appeared), the call has ended with a failure;
\* it is not still inside the scanning loop.
C1_SectionNotFound ==
    line = EOF => (pc = "idle" /\ ret.exc # "none")

\* C2: to_json and to_csv only read the record tree: the step in which an
\* exporter runs leaves every record of output_data as it was.
C2_ExportersOnlyRead ==
    [][ExportReturns => output_data' = output_data]_vars

\* C3: an export given a save_dir that is not a directory fails and writes
\* nothing; given an existing save_dir it writes every file into it; given
\* none it writes each file into the directory of its own input file.
C3_SaveDir ==
    ret.op \in Exports =>
        IF ret.save_dir # None
        THEN IF ~isdir(ret.save_dir)
             THEN ret.exc # "none" /\ ret.wrote = {}
             ELSE \A p \in ret.wrote : dirname(p) = ret.save_dir
        ELSE \A p \in ret.wrote : dirname(p) = dirname(DictGet(source_of, p[2]))

\* C6: every .csv written for a calibration record has 3 rows per source-cal
\* entry, and all its rows have the same columns in the same order: those
\* fixed before the first row was built.
C6_UniformRows ==
    \A p \in DOMAIN written :
        written[p].kind = "csv" =>
            LET rows == written[p].rows
            IN  /\ Len(rows) = 3 * Len(DictGet(output_data, p[2]).sourcecal_settings)
                /\ \A i \in 1..Len(rows) : DictKeys(rows[i]) = DictKeys(rows[1])

\* the step in which _parse_settings reads a line
SettingsReads == pc = "settings"
SentinelAt(f, p) == Len(strip_split(readline(f, p))) = 1

\* C9 as stated: _parse_settings returns at the first single-token line
\* without consuming it: the cursor still points at that line.
C9_SentinelNotConsumed ==
    [][(SettingsReads /\ pc' \notin {"settings", "idle"}) => pos' = pos]_vars

\* C9 as amended: _parse_settings returns at the first single-token line and
\* has consumed it: the cursor is just past that line (or stays at end of
\* input when the end of input was the sentinel), the settings are returned
\* as collected, and every line read before it was recorded as field/value.
C9_SentinelConsumed ==
    [][SettingsReads =>
        LET f == disk[input_files[fidx]]
            l == strip_split(readline(f, pos))
        IN  /\ SentinelAt(f, pos) <=> pc' \notin {"settings", "idle"}
            /\ SentinelAt(f, pos) => pos' = advance(f, pos) /\ settings' = settings
            /\ pc' = "settings" =>
                   /\ pos' = advance(f, pos)
                   /\ HasKey(settings', FieldOf(l))
                   /\ DictGet(settings', FieldOf(l)) = ValueOf(l)
                   /\ \A k \in KeySet(settings) \ {FieldOf(l)} :
                          DictGet(settings', k) = DictGet(settings, k)]_vars

\* C9 witness: _parse_settings has returned the fields of a SourceCal block
\* at a blank line of the file, and the cursor is past that line.
C9_Witness ==
    /\ pc = "sourcecal"
    /\ settings # <<>>
    /\ HasKey(rec.sourcecal_settings, cal)
    /\ pos > 1
    /\ pos <= Len(disk[input_files[fidx]])
    /\ disk[input_files[fidx]][pos - 1] = Blank

(***************************************************************************)
(* Region (.evr) files                                                     *)
(***************************************************************************)
EvrHeader == <<"EVRG", "7", "13.0">>
MetaLine(rid, npoints) ==
    <<"13", npoints, rid, "0", "2", "-1", "1", "20210101", "0930000000", "", "-10.5",
      "20210101", "0940000000", "", "5.0">>
RECURSIVE PointTokens(_)
PointTokens(n) ==
    IF n = 0 THEN <<>>
    ELSE PointTokens(n - 1) \o <<"20210101", IF n = 1 THEN "0930000000" ELSE "0940000000", "-10.5">>
Numeral(n) == CASE n = 0 -> "0" [] n = 1 -> "1" [] n = 2 -> "2" [] n = 3 -> "3" [] OTHER -> "?"
Note(i) == IF i = 1 THEN <<"first", "note">> ELSE <<"more">>
Detection(i) == <<"d", Numeral(i)>>

\* one region block: separator, metadata, notes, detection settings,
\* classification, points, name
RegionBlock(rid, nnotes, ndet, npoints) ==
    <<Blank, MetaLine(rid, Numeral(npoints)), <<Numeral(nnotes)>>>>
    \o [i \in 1..nnotes |-> Note(i)]
    \o <<<<Numeral(ndet)>>>>
    \o [i \in 1..ndet |-> Detection(i)]
    \o <<<<"Unclassified", "regions">>, PointTokens(npoints) \o <<"1", "">>, <<"Region", rid>>>>

EvrFile(n, blocks) == <<EvrHeader, <<n>>>> \o blocks

EvrOne == EvrFile("1", RegionBlock("7", 0, 0, 2))
EvrTwo == EvrFile("2", RegionBlock("7", 1, 1, 1) \o RegionBlock("8", 0, 0, 2))
\* three regions declared, two present
EvrThree == EvrFile("3", RegionBlock("7", 2, 0, 1) \o RegionBlock("8", 0, 0, 2))
\* two blocks with the same region id
EvrDup == EvrFile("2", RegionBlock("7", 1, 0, 1) \o RegionBlock("7", 0, 1, 2))
EvrZero == EvrFile("0", <<>>)
EvrNoPoints == EvrFile("1", RegionBlock("8", 0, 0, 0))

R1 == <<"d1", "r", "evr">>
R2 == <<"d2", "r", "evr">>
S2 == <<"d2", "s", "evr">>
\* next to d1/r.evr there is either d2/r.evr or d2/s.evr
EvrDisks ==
    {[p \in {R1, R2} |-> IF p = R1 THEN EvrOne ELSE EvrDup]}
    \cup {[p \in {R1, S2} |-> IF p = R1 THEN EvrOne ELSE c] :
             c \in Prefixes(EvrTwo) \cup {EvrThree, EvrZero, EvrNoPoints}}

(***************************************************************************)
(* Region2DParser._parse                                                   *)
(***************************************************************************)
\* read_line(fid) of _parse: readline().rstrip('\n')
read_line(lines, p) == IF readline(lines, p) = EOF THEN <<"">> ELSE readline(lines, p)

\* int(s): whether s is an integer literal (else ValueError), and its value
Digits == {"0", "1", "2", "3"}
is_int(s) == LET t == strip_split(s) IN Len(t) = 1 /\ t[1] \in Digits
int(s) ==
    LET t == strip_split(s)
    IN  CASE t[1] = "0" -> 0 [] t[1] = "1" -> 1 [] t[1] = "2" -> 2 [] t[1] = "3" -> 3
          [] OTHER -> 0

\* a comprehension that stops one line early
ReadLines_short(lines, p, n) == [i \in 1..(n - 1) |-> read_line(lines, p + i - 1)]

\* [read_line(fid) for l in range(n)] from the cursor p
ReadLines(lines, p, n) == [i \in 1..n |-> read_line(lines, p + i - 1)]
\* the cursor after n calls of readline()
AdvanceBy(lines, p, n) == IF p + n <= Len(lines) THEN p + n ELSE Max(p, Len(lines) + 1)

region_metadata_to_dict(l) ==
    [structure_version |-> l[1],
     point_count |-> l[2],
     selected |-> l[4],
     creation_type |-> l[5],
     dummy |-> l[6],
     bounding_rectangle_calculated |-> l[7],
     bounding_rectangle_left_x |-> <<"D", l[8], "T", l[9]>>,
     bounding_rectangle_top_y |-> l[11],
     bounding_rectangle_right_x |-> <<"D", l[12], "T", l[13]>>,
     bounding_rectangle_bottom_y |-> l[15]]

\* the points as the sequence of the values of the dict {0: (x, y), 1: ...}
points_to_dict(l) ==
    [k \in 1..(Len(l) \div 3) |->
        <<<<"D", l[3 * k - 2], "T", l[3 * k - 1]>>, l[3 * k]>>]

\* one iteration of `for r in range(n_regions)` with the cursor at p:
\* the exception it raises ("none" if none), the region id and record it
\* stores in regions, and the cursor after it
parse_region(lines, p) ==
    LET region_metadata == read_line(lines, p + 1)        \* after fid.readline()
        note_count == read_line(lines, p + 2)
        n_note_lines == int(note_count)
        p3 == AdvanceBy(lines, p, 3)
        notes == ReadLines(lines, p3, n_note_lines)
        p4 == AdvanceBy(lines, p3, n_note_lines)
        detection_count == read_line(lines, p4)
        n_detection_setting_lines == int(detection_count)
        p5 == AdvanceBy(lines, p4, 1)
        detection_settings == ReadLines(lines, p5, n_detection_setting_lines)
        p6 == AdvanceBy(lines, p5, n_detection_setting_lines)
        region_classification == read_line(lines, p6)
        points_line == read_line(lines, p6 + 1)
        popped == SubSeq(points_line, 1, Len(points_line) - 1)      \* points_line.pop()
        type == popped[Len(popped)]                                 \* points_line.pop()
        point_tokens == SubSeq(popped, 1, Len(popped) - 1)
        name == read_line(lines, p6 + 2)
        exc == IF Len(region_metadata) < 3 THEN "IndexError"        \* region_metadata[2]
               ELSE IF Len(region_metadata) < 15 THEN "IndexError"  \* line[14]
               ELSE IF ~is_int(note_count) THEN "ValueError"
               ELSE IF ~is_int(detection_count) THEN "ValueError"
               ELSE IF popped = <<>> THEN "IndexError"              \* pop from empty list
               ELSE IF Len(point_tokens) % 3 # 0 THEN "IndexError"  \* line[idx + 2]
               ELSE "none"
    IN  [exc |-> exc,
         rid |-> IF exc = "none" THEN region_metadata[3] ELSE "",
         region |->
             IF exc # "none" THEN <<>>
             ELSE [metadata |-> region_metadata_to_dict(region_metadata)
                                @@ [region_classification |-> region_classification,
                                    type |-> type,
                                    name |-> name],
                   notes |-> notes,
                   detection_settings |-> detection_settings,
                   points |-> points_to_dict(point_tokens)],
         pos |-> AdvanceBy(lines, p6, 3)]

\* the start of _parse: the header line and the region count
parse_header(lines) ==
    LET header == read_line(lines, 1)
        region_count == read_line(lines, 2)
    IN  [exc |-> IF Len(header) # 3 THEN "ValueError"               \* unpacking
                 ELSE IF ~is_int(region_count) THEN "ValueError"
                 ELSE "none",
         file_metadata |-> IF Len(header) # 3 THEN <<>>
                           ELSE [filetype |-> header[1],
                                 file_format_number |-> header[2],
                                 echoview_version |-> header[3]],
         n_regions |-> int(region_count)]

Failed(e) == [exc |-> e, metadata |-> <<>>, regions |-> <<>>]

\* Region2DParser._parse(fid) as a function of the file: the region loop
\* from iteration r on, and the whole
RECURSIVE ParseRegions(_, _, _, _, _, _)
ParseRegions(lines, p, r, n_regions, file_metadata, regions) ==
    IF r > n_regions
    THEN [exc |-> "none", metadata |-> file_metadata, regions |-> regions]
    ELSE LET b == parse_region(lines, p)
         IN  IF b.exc # "none" THEN Failed(b.exc)
             ELSE ParseRegions(lines, b.pos, r + 1, n_regions, file_metadata,
                               DictSet(regions, b.rid, b.region))

parse(lines) ==
    LET h == parse_header(lines)
    IN  IF h.exc # "none" THEN Failed(h.exc)
        ELSE ParseRegions(lines, 3, 1, h.n_regions, h.file_metadata, <<>>)

(***************************************************************************)
(* Region2DParser: parse_files, to_csv, to_json.  parse_files is modelled  *)
(* file by file and region by region (pc).                                 *)
(***************************************************************************)
\* the rows to_csv builds for one region: one per point
RegionRows(metadata, rid, region) ==
    [p \in 1..Len(region.points) |->
        [region_id |-> rid, point_idx |-> p - 1,
         x |-> region.points[p][1], y |-> region.points[p][2]]
        @@ metadata @@ region.metadata
        @@ [notes |-> region.notes, detection_settings |-> region.detection_settings]]

RECURSIVE FileRows(_, _)
FileRows(data, i) ==
    IF i > Len(data.regions) THEN <<>>
    ELSE RegionRows(data.metadata, data.regions[i][1], data.regions[i][2])
         \o FileRows(data, i + 1)

\* the loop of to_csv over output_data.items(), from item i on; `bound` is
\* whether the local `row` has been assigned
RECURSIVE EvrCsvLoop(_, _, _, _)
EvrCsvLoop(dir, i, bound, st) ==
    IF i > Len(st.od) THEN st
    ELSE LET file == st.od[i][1]
             rows == FileRows(st.od[i][2], 1)
             output_file_path == join(dir, file, "csv")
         IN  IF rows = <<>>
             THEN [st EXCEPT !.exc = IF bound THEN "KeyError" ELSE "NameError"]  \* df[row.keys()]
             ELSE EvrCsvLoop(dir, i + 1, TRUE,
                     [st EXCEPT !.fs = FsWrite(@, output_file_path,
                                               [kind |-> "csv", rows |-> rows]),
                                !.out = Append(@, output_file_path),
                                !.wrote = @ \cup {output_file_path}])

evr_to_csv_body(save_dir, files, od, out, fs) ==
    LET vp == validate_path(PassedSaveDir(save_dir), files)
    IN  IF vp.exc # "none"
        THEN [ExportState(od, out, fs) EXCEPT !.exc = vp.exc]
        ELSE EvrCsvLoop(vp.dir, 1, FALSE, ExportState(od, out, fs))

\* an export that always parses first
NeedsParse_always(od) == TRUE

\* `if not self.output_data:`
NeedsParse(od) == od = <<>>

EvrIdle == pc = "idle" /\ ncalls < MaxCalls
NoRegions == [metadata |-> <<>>, regions |-> <<>>, r |-> 1, n_regions |-> 0]

\* parse_files up to the for loop: self._output_path = []
EvrBeginParse(c) ==
    /\ output_path' = <<>>
    /\ call' = c
    /\ pc' = "for"
    /\ fidx' = 1
    /\ pos' = 1
    /\ rec' = NoRegions
    /\ UNCHANGED <<line, stage, settings, cal>>

\* Region2DParser.parse_files()
EvrParseFiles ==
    /\ EvrIdle
    /\ ncalls' = ncalls + 1
    /\ EvrBeginParse([op |-> "parse_files", save_dir |-> None, parsed |-> TRUE])
    /\ UNCHANGED <<disk, input_files, output_data, written, source_of, ret>>

\* `for file in self.input_files:`, open, and _parse up to the region loop
EvrFor ==
    /\ pc = "for"
    /\ IF fidx > Len(input_files)
       THEN /\ IF call.op = "parse_files"
               THEN /\ pc' = "idle"
                    /\ ret' = Returned(call, "none", {})
                    /\ call' = NoCall
               ELSE /\ pc' = "export"
                    /\ UNCHANGED <<ret, call>>
            /\ UNCHANGED <<pos, rec>>
       ELSE LET h == parse_header(disk[input_files[fidx]])
            IN  IF h.exc # "none"
                THEN /\ Raise(h.exc)
                     /\ UNCHANGED <<pos, rec>>
                ELSE /\ pc' = "region"
                     /\ pos' = 3
                     /\ rec' = [metadata |-> h.file_metadata, regions |-> <<>>,
                                r |-> 1, n_regions |-> h.n_regions]
                     /\ UNCHANGED <<ret, call>>
    /\ UNCHANGED <<disk, ncalls, fidx, line, stage, settings, cal>>
    /\ UNCHANGED session

\* one iteration of `for r in range(n_regions)`; after the last one, the
\* return of _parse and the assignment of self.output_data[fname]
EvrRegion ==
    /\ pc = "region"
    /\ IF rec.r > rec.n_regions
       THEN LET file == input_files[fidx]
                fname == splitext(basename(file))[1]
            IN  /\ output_data' = DictSet(output_data, fname,
                       [metadata |-> rec.metadata, regions |-> rec.regions])
                /\ source_of' = DictSet(source_of, fname, file)
                /\ fidx' = fidx + 1
                /\ pc' = "for"
                /\ UNCHANGED <<pos, rec, ret, call>>
       ELSE LET b == parse_region(disk[input_files[fidx]], pos)
            IN  IF b.exc # "none"
                THEN /\ Raise(b.exc)
                     /\ UNCHANGED <<pos, rec, fidx, output_data, source_of>>
                ELSE /\ rec' = [rec EXCEPT !.regions = DictSet(@, b.rid, b.region),
                                           !.r = @ + 1]
                     /\ pos' = b.pos
                     /\ UNCHANGED <<pc, ret, call, fidx, output_data, source_of>>
    /\ UNCHANGED <<disk, ncalls, input_files, output_path, written, line, stage, settings, cal>>

\* the rest of to_json / to_csv after `if not self.output_data: self.parse_files()`
EvrFinish(c, out) ==
    LET st == IF c.op = "to_json"
              THEN to_json_body(c.save_dir, input_files, output_data, out, written)
              ELSE evr_to_csv_body(c.save_dir, input_files, output_data, out, written)
    IN  /\ output_data' = st.od
        /\ output_path' = st.out
        /\ written' = st.fs
        /\ ret' = Returned(c, st.exc, st.wrote)
        /\ pc' = "idle"
        /\ call' = NoCall

EvrExport ==
    /\ pc = "export"
    /\ EvrFinish(call, output_path)
    /\ UNCHANGED <<disk, ncalls, input_files, source_of>>
    /\ UNCHANGED frame

\* to_json(save_dir) / to_csv(save_dir) of Region2DParser
EvrExportCall(op, save_dir) ==
    /\ EvrIdle
    /\ ncalls' = ncalls + 1
    /\ IF NeedsParse(output_data)
       THEN /\ EvrBeginParse([op |-> op, save_dir |-> save_dir, parsed |-> TRUE])
            /\ UNCHANGED <<output_data, written, ret>>
       ELSE /\ EvrFinish([op |-> op, save_dir |-> save_dir, parsed |-> FALSE], output_path)
            /\ UNCHANGED frame
    /\ UNCHANGED <<disk, input_files, source_of>>

EvrToJson == \E save_dir \in SaveDirs : EvrExportCall("to_json", save_dir)
EvrToCsv == \E save_dir \in SaveDirs : EvrExportCall("to_csv", save_dir)
EvrSetInputFiles == EvrIdle /\ \E files \in FileLists : SetInputFiles(files)

InitEvr ==
    /\ disk \in EvrDisks
    /\ input_files \in {fl \in FileLists : \A i \in 1..Len(fl) : isfile(fl[i])}
    /\ output_data = <<>>
    /\ output_path = <<>>
    /\ written = <<>>
    /\ source_of = <<>>
    /\ ret = NoRet
    /\ ncalls = 0
    /\ pc = "idle"
    /\ call = NoCall
    /\ fidx = 1
    /\ pos = 1
    /\ line = Blank
    /\ stage = "fileset"
    /\ settings = <<>>
    /\ cal = ""
    /\ rec = NoRegions

NextEvr ==
    \/ EvrSetInputFiles
    \/ EvrParseFiles
    \/ EvrToJson
    \/ EvrToCsv
    \/ EvrFor
    \/ EvrRegion
    \/ EvrExport

SpecEvr == InitEvr /\ [][NextEvr]_vars

(***************************************************************************)
(* The layout of a region file, read off the file alone: where each of the *)
(* declared region blocks lies, and whether a declared count exceeds the   *)
(* lines that are left.                                                    *)
(***************************************************************************)
IsCount(l) == Len(l) = 1 /\ l[1] \in {Numeral(n) : n \in 0..3}
CountOf(l) == CHOOSE n \in 0..3 : Numeral(n) = l[1]
LinesFrom(lines, p) == Max(Len(lines) - p + 1, 0)       \* lines from index p to the end

\* short: a declared count exceeds the lines left; complete: every declared
\* block is there up to its points line (its name line may lie past the end)
Layout(short, complete, blocks) == [short |-> short, complete |-> complete, blocks |-> blocks]

RECURSIVE BlocksFrom(_, _, _, _, _)
BlocksFrom(lines, p, r, n, blocks) ==
    IF r > n THEN Layout(FALSE, TRUE, blocks)
    ELSE IF LinesFrom(lines, p) < 2 THEN Layout(TRUE, FALSE, blocks)  \* region r of n is not there
    ELSE IF ~IsCount(readline(lines, p + 2)) THEN Layout(FALSE, FALSE, blocks)
    ELSE LET nnotes == CountOf(lines[p + 2])
             dpos == p + 3 + nnotes
         IN  IF nnotes > LinesFrom(lines, p + 3) THEN Layout(TRUE, FALSE, blocks)
             ELSE IF ~IsCount(readline(lines, dpos)) THEN Layout(FALSE, FALSE, blocks)
             ELSE LET ndet == CountOf(lines[dpos])
                      cpos == dpos + 1 + ndet
                  IN  IF ndet > LinesFrom(lines, dpos + 1) THEN Layout(TRUE, FALSE, blocks)
                      ELSE IF LinesFrom(lines, cpos) < 2 THEN Layout(FALSE, FALSE, blocks)
                      ELSE BlocksFrom(lines, cpos + 3, r + 1, n,
                               Append(blocks, [meta |-> p + 1, notes |-> p + 3, nnotes |-> nnotes,
                                               det |-> dpos + 1, ndet |-> ndet,
                                               class |-> cpos, points |-> cpos + 1,
                                               name |-> cpos + 2]))

FileLayout(lines) ==
    IF Len(lines) < 2 \/ ~IsCount(readline(lines, 2)) THEN Layout(FALSE, FALSE, <<>>)
    ELSE IF CountOf(lines[2]) > LinesFrom(lines, 3) THEN Layout(TRUE, FALSE, <<>>)
    ELSE BlocksFrom(lines, 3, 1, CountOf(lines[2]), <<>>)

\* a declared region, note-line or detection-setting-line count exceeds the
\* number of lines available before end of input
Truncated(lines) == FileLayout(lines).short

(***************************************************************************)
(* Properties of Region2DParser                                            *)
(***************************************************************************)
Parsers == {"parse_files", "to_json", "to_csv"}
StemOf(file) == splitext(basename(file))[1]
\* the lines of the file the k-th record of output_data was parsed from
SourceLines(k) == disk[DictGet(source_of, output_data[k][1])]
DeclaredRegions(lines) == CountOf(lines[2])

C5_EntriesEqualDeclared ==
    \A k \in 1..Len(output_data) :
        Len(output_data[k][2].regions) = DeclaredRegions(SourceLines(k))

\* the region record that block b of the file holds
BlockRecord(lines, b) ==
    [notes |-> [i \in 1..b.nnotes |-> lines[b.notes + i - 1]],
     detection_settings |-> [i \in 1..b.ndet |-> lines[b.det + i - 1]],
     region_classification |-> lines[b.class],
     npoints |-> (Len(lines[b.points]) - 2) \div 3,
     name |-> read_line(lines, b.name)]
RegionSummary(region) ==
    [notes |-> region.notes,
     detection_settings |-> region.detection_settings,
     region_classification |-> region.metadata.region_classification,
     npoints |-> Len(region.points),
     name |-> region.metadata.name]

\* C5 as amended: the regions mapping of every parsed file has one entry per
\* distinct region identifier among the N declared region blocks (so N
\* entries exactly when the identifiers are distinct), and each entry holds
\* the notes, detection settings, points and metadata of one block: the last
\* block with that identifier.
C5_EntriesAreDistinctIds ==
    \A k \in 1..Len(output_data) :
        LET lines == SourceLines(k)
            lay == FileLayout(lines)
            regions == output_data[k][2].regions
            RidOf(j) == lines[lay.blocks[j].meta][3]
            blocks == 1..Len(lay.blocks)
        IN  /\ lay.complete
            /\ Len(lay.blocks) = DeclaredRegions(lines)
            /\ KeySet(regions) = {RidOf(j) : j \in blocks}
            /\ Len(regions) = Cardinality({RidOf(j) : j \in blocks})
            /\ \A i \in 1..Len(regions) :
                   LET last == CHOOSE j \in blocks :
                                   /\ RidOf(j) = regions[i][1]
                                   /\ \A j2 \in blocks : RidOf(j2) = regions[i][1] => j2 <= j
                   IN  RegionSummary(regions[i][2]) = BlockRecord(lines, lay.blocks[last])

\* C5 witness: a parsed file that declares two regions with the same id
C5_Witness ==
    \E k \in 1..Len(output_data) :
        /\ DeclaredRegions(SourceLines(k)) = 2
        /\ Len(output_data[k][2].regions) = 1

\* number of points of the regions before region i of a record
RECURSIVE PointsBefore(_, _)
PointsBefore(regions, i) ==
    IF i <= 1 THEN 0
    ELSE PointsBefore(regions, i - 1) + Len(regions[i - 1][2].points)

\* every file of the call parsed: the call did not fail in parse_files
ParsedAll == ret.parsed => \A i \in 1..Len(input_files) : parse(disk[input_files[i]]).exc = "none"

\* C7: to_csv of successfully parsed region files completes and writes, for
\* each file, exactly one row per point: the rows of a region in point-index
\* order, each with the region's id; also when a file has no point at all.
C7_OneRowPerPoint ==
    (ret.op = "to_csv" /\ input_files # <<>> /\ ParsedAll) =>
        /\ ret.exc = "none"
        /\ \A k \in 1..Len(output_data) :
               LET regions == output_data[k][2].regions
                   out == join(dirname(input_files[1]), output_data[k][1], "csv")
               IN  /\ out \in ret.wrote
                   /\ Len(written[out].rows) = PointsBefore(regions, Len(regions) + 1)
                   /\ \A i \in 1..Len(regions) : \A q \in 1..Len(regions[i][2].points) :
                          LET row == written[out].rows[PointsBefore(regions, i) + q]
                          IN  /\ row.region_id = regions[i][1]
                              /\ row.point_idx = q - 1
                              /\ <<row.x, row.y>> = regions[i][2].points[q]

\* C8: after parse_files succeeds on k distinct input files, output_data
\* holds one record per input file, under k different keys, each equal to
\* the record of that file parsed alone.
C8_OneRecordPerFile ==
    (ret.op = "parse_files" /\ ret.exc = "none") =>
        /\ Cardinality({StemOf(input_files[i]) : i \in 1..Len(input_files)}) = Len(input_files)
        /\ \A i \in 1..Len(input_files) :
               LET alone == parse(disk[input_files[i]])
               IN  /\ HasKey(output_data, StemOf(input_files[i]))
                   /\ DictGet(output_data, StemOf(input_files[i]))
                          = [metadata |-> alone.metadata, regions |-> alone.regions]

\* the paths an export writes for the records of od
OutputsOf(od, dir, op) == {join(dir, od[k][1], IF op = "to_json" THEN "json" ELSE "csv") :
                              k \in 1..Len(od)}

\* C10: an export enters parse_files exactly when output_data is empty when
\* it is called, and no step removes an entry of output_data: an export
\* called with records in output_data parses nothing (the records and their
\* source files stay as they are, _output_path is extended, not reset) and,
\* when it succeeds, writes exactly the records that were there.
C10_ParseIffEmpty ==
    [][/\ \A k \in KeySet(output_data) : HasKey(output_data', k)
       /\ (pc = "idle" /\ ncalls' = ncalls + 1
              /\ (IF pc' = "idle" THEN ret'.op ELSE call'.op) \in Exports) =>
             /\ pc' = "for" <=> output_data = <<>>
             /\ output_data = <<>> => output_path' = <<>>
             /\ output_data # <<>> =>
                   /\ pc' = "idle"
                   /\ ~ret'.parsed
                   /\ output_data' = output_data
                   /\ source_of' = source_of
                   /\ SubSeq(output_path', 1, Len(output_path)) = output_path
                   /\ ret'.exc = "none" =>
                          ret'.wrote = OutputsOf(output_data, dirname(input_files[1]), ret'.op)
      ]_vars

\* C10 witness: an export that did not parse wrote the record of an input
\* parsed earlier, while a file of the current input_files has no record.
C10_Witness ==
    /\ ret.op \in Exports
    /\ ~ret.parsed
    /\ ret.exc = "none"
    /\ ret.wrote # {}
    /\ \E i \in 1..Len(input_files) : ~HasKey(output_data, StemOf(input_files[i]))
    /\ \E k \in 1..Len(source_of) : \A i \in 1..Len(input_files) : input_files[i] # source_of[k][2]

====
